---- MODULE Spec2Model ----
(***************************************************************************)
(* Model of the response cache (CacheManager), the token ledger            *)
(* (TokenTracker), the conversation context (ConversationManager) and the  *)
(* request pipeline (CleverAssistant.sendMessage).                         *)
(*                                                                         *)
(* Abstractions: the SHA-256 prefix of generateKey is taken as injective,  *)
(* so a key is the canonical JSON document that is hashed; time is a       *)
(* discrete clock `now` standing for Date.now(); the cache file is the     *)
(* variable `file`.                                                        *)
(***************************************************************************)
EXTENDS Integers, Sequences, FiniteSets, TLC

VARIABLES
    now,                \* Date.now()
    file,               \* data/cache.json: NoFile or the document written by save()
    enabled,            \* CacheManager.enabled
    maxSize,            \* CacheManager.maxSize
    persistenceEnabled, \* CacheManager.persistenceEnabled
    cache,              \* CacheManager.cache: the Map, as its entries in insertion order
    accessOrder,        \* CacheManager.accessOrder
    stats,              \* CacheManager.stats
    conversation,       \* ConversationManager: history, systemPrompt, model, maxTokens, temperature
    currentMode,        \* CleverAssistant.currentMode
    tokenTracker,       \* TokenTracker: counters, callHistory, budgetLimit, warnThreshold
    modelPrices,        \* Config.MODEL_PRICES
    pending,            \* requests suspended at the await of the remote call
    origin,             \* ghost: for a cached key, the outbound parameters of the call that produced its value
    accessLog,          \* ghost: every key ever set or hit, ordered by its last access
    audit,              \* ghost: for each record of callHistory, the price table when it was appended
    keyProbe,           \* ghost: the first (input, key) pair generateKey produced
    last,               \* ghost: what the most recent step did
    streams,            \* calls of chatStream suspended at the await of the next stream event
    convFile,           \* data/conversation-<sessionId>.json: NoSnapshot or the document written
    steps,              \* number of steps taken
    budget              \* number of steps the run may take

vars == <<now, file, enabled, maxSize, persistenceEnabled, cache,
          accessOrder, stats, conversation, currentMode, tokenTracker, pending,
          modelPrices, streams, convFile, origin, accessLog, audit, keyProbe, last,
          steps, budget>>

----------------------------------------------------------------------------
(* Bounds *)

MaxTime == 2
MaxSteps == 4
MaxCap == 2
MaxInflight == 2
BudgetLimit == 100      \* the budgetLimit option, in the cost unit of MODEL_PRICES

(* Program constants (clock ticks stand for milliseconds) *)

DefaultTTL == 2
DEFAULT_MODEL == "sonnet"
DEFAULT_MAX_TOKENS == 1024
WARN_THRESHOLD_TENTHS == 8

----------------------------------------------------------------------------
(* JavaScript values *)

JUndef == [t |-> "undefined", s |-> "", n |-> 0]
JNull == [t |-> "null", s |-> "", n |-> 0]
JStr(x) == [t |-> "string", s |-> x, n |-> 0]
JNum(x) == [t |-> "number", s |-> "", n |-> x]

\* ToBoolean(v) is false: the left operand of a || that is skipped
falsy(v) ==
    \/ v.t = "undefined"
    \/ v.t = "null"
    \/ v.t = "string" /\ v.s = ""
    \/ v.t = "number" /\ v.n = 0

\* a || b
or(a, b) == IF falsy(a) THEN b ELSE a

\* JSON.stringify of an object property: a property whose value is undefined
\* is left out of the document, every other value is written with its type
JOmitted == [t |-> "omitted", s |-> "", n |-> 0]
stringifyProp(v) == IF v.t = "undefined" THEN JOmitted ELSE v

NoOptions == [model |-> JUndef, maxTokens |-> JUndef, temperature |-> JUndef,
              systemPrompt |-> JUndef]

----------------------------------------------------------------------------
(* CacheManager.generateKey *)

generateKeySalted(message, options) ==
    [message |-> stringifyProp(message),
     model |-> stringifyProp(or(options.model, JStr(DEFAULT_MODEL))),
     maxTokens |-> stringifyProp(or(options.maxTokens, JNum(DEFAULT_MAX_TOKENS + stats.sets))),
     temperature |-> stringifyProp(options.temperature),
     systemPrompt |-> stringifyProp(options.systemPrompt)]

generateKey(message, options) ==
    [message |-> stringifyProp(message),
     model |-> stringifyProp(or(options.model, JStr(DEFAULT_MODEL))),
     maxTokens |-> stringifyProp(or(options.maxTokens, JNum(DEFAULT_MAX_TOKENS))),
     temperature |-> stringifyProp(options.temperature),
     systemPrompt |-> stringifyProp(options.systemPrompt)]

----------------------------------------------------------------------------
(* Input domains *)

Texts == {"a", "b", "c"}
Values == {"", "x"}
NULL == "null"
TTLs == {0, 1}         \* 0 stands for the omitted / null ttl argument
Keys == {generateKey(JStr(m), NoOptions) : m \in Texts}
NoKey == generateKey(JUndef, NoOptions)
NoFile == [exists |-> FALSE, cache |-> <<>>,
           stats |-> [hits |-> 0, misses |-> 0, sets |-> 0, deletes |-> 0, evictions |-> 0]]

----------------------------------------------------------------------------
(* Sequences used as Map / Array *)

RECURSIVE indexOf(_, _, _)
\* Array.prototype.indexOf from position i: first index holding k, else 0
indexOf(seq, k, i) ==
    IF i > Len(seq) THEN 0
    ELSE IF seq[i] = k THEN i
    ELSE indexOf(seq, k, i + 1)

\* Array.prototype.splice(index, 1)
splice(seq, i) == SubSeq(seq, 1, i - 1) \o SubSeq(seq, i + 1, Len(seq))

keysOf(c) == {c[i].key : i \in 1..Len(c)}
mapHas(c, k) == k \in keysOf(c)
mapGet(c, k) == c[CHOOSE i \in 1..Len(c) : c[i].key = k]
\* Map.prototype.set: an existing key keeps its position, a new one goes last
mapSet(c, item) ==
    IF mapHas(c, item.key)
    THEN [i \in 1..Len(c) |-> IF c[i].key = item.key THEN item ELSE c[i]]
    ELSE Append(c, item)
mapDelete(c, k) == SelectSeq(c, LAMBDA it : it.key # k)

----------------------------------------------------------------------------
(* CacheItem *)

CacheItem(key, value, ttl) ==
    [key |-> key, value |-> value, createdAt |-> now, ttl |-> ttl, hits |-> 0]

isExpired(item) == now - item.createdAt > item.ttl

touch(item) == [item EXCEPT !.hits = @ + 1]

----------------------------------------------------------------------------
(* CacheManager: the store is the record S of its mutable fields and file *)

ZeroStats == [hits |-> 0, misses |-> 0, sets |-> 0, deletes |-> 0, evictions |-> 0]

Store == [cache |-> cache, accessOrder |-> accessOrder, stats |-> stats, file |-> file]

\* save(): the document written to the cache file (writes are taken to succeed)
save(S) == [S EXCEPT !.file = [exists |-> TRUE, cache |-> S.cache, stats |-> S.stats]]

updateAccessOrderNoMove(ao, key) ==
    IF indexOf(ao, key, 1) # 0 THEN ao ELSE Append(ao, key)

updateAccessOrder(ao, key) ==
    LET index == indexOf(ao, key, 1)
    IN  Append(IF index # 0 THEN splice(ao, index) ELSE ao, key)

evictLRUKeepOrder(S) ==
    IF Len(S.accessOrder) = 0 THEN S
    ELSE [S EXCEPT !.cache = mapDelete(@, Head(S.accessOrder)),
                   !.stats.evictions = @ + 1]

evictLRU(S) ==
    IF Len(S.accessOrder) = 0 THEN S
    ELSE [S EXCEPT !.cache = mapDelete(@, Head(S.accessOrder)),
                   !.accessOrder = Tail(@),
                   !.stats.evictions = @ + 1]

delete(S, key) ==
    IF mapHas(S.cache, key)
    THEN LET S1 == [S EXCEPT !.cache = mapDelete(@, key),
                             !.accessOrder = SelectSeq(@, LAMBDA k : k # key),
                             !.stats.deletes = @ + 1]
         IN  IF persistenceEnabled THEN save(S1) ELSE S1
    ELSE S

getIgnoringFlag(S, key) ==
    IF ~mapHas(S.cache, key)
    THEN [S |-> [S EXCEPT !.stats.misses = @ + 1], ret |-> NULL]
    ELSE LET item == mapGet(S.cache, key)
         IN  IF isExpired(item)
             THEN [S |-> [delete(S, key) EXCEPT !.stats.misses = @ + 1], ret |-> NULL]
             ELSE [S |-> [S EXCEPT !.accessOrder = updateAccessOrder(@, key),
                                   !.cache = mapSet(@, touch(item)),
                                   !.stats.hits = @ + 1],
                   ret |-> item.value]

\* get(key): the new store and the returned value
get(S, key) ==
    IF ~enabled THEN [S |-> S, ret |-> NULL]
    ELSE IF ~mapHas(S.cache, key)
    THEN [S |-> [S EXCEPT !.stats.misses = @ + 1], ret |-> NULL]
    ELSE LET item == mapGet(S.cache, key)
         IN  IF isExpired(item)
             THEN [S |-> [delete(S, key) EXCEPT !.stats.misses = @ + 1], ret |-> NULL]
             ELSE [S |-> [S EXCEPT !.accessOrder = updateAccessOrder(@, key),
                                   !.cache = mapSet(@, touch(item)),
                                   !.stats.hits = @ + 1],
                   ret |-> item.value]

\* set(key, value, ttl): the new store and the returned boolean
set(S, key, value, ttl) ==
    IF ~enabled THEN [S |-> S, ret |-> FALSE]
    ELSE LET S1 == IF Len(S.cache) >= maxSize /\ ~mapHas(S.cache, key)
                   THEN evictLRU(S) ELSE S
             item == CacheItem(key, value, IF ttl = 0 THEN DefaultTTL ELSE ttl)
             S2 == [S1 EXCEPT !.cache = mapSet(@, item),
                              !.accessOrder = updateAccessOrder(@, key),
                              !.stats.sets = @ + 1]
         IN  [S |-> IF persistenceEnabled THEN save(S2) ELSE S2, ret |-> TRUE]

clear(S) ==
    LET S1 == [S EXCEPT !.cache = <<>>, !.accessOrder = <<>>, !.stats = ZeroStats]
    IN  IF persistenceEnabled THEN save(S1) ELSE S1

RECURSIVE cleanupFrom(_, _, _)
\* the loop of cleanup() over the entries that were in the Map, in order
cleanupFrom(S, items, cleaned) ==
    IF items = <<>> THEN [S |-> S, ret |-> cleaned]
    ELSE LET item == Head(items)
         IN  IF now - item.createdAt > item.ttl
             THEN cleanupFrom(delete(S, item.key), Tail(items), cleaned + 1)
             ELSE cleanupFrom(S, Tail(items), cleaned)

cleanup(S) == cleanupFrom(S, S.cache, 0)

RECURSIVE loadItemsInclusive(_, _)
loadItemsInclusive(S, items) ==
    IF items = <<>> THEN S
    ELSE LET item == Head(items)
         IN  IF now - item.createdAt <= item.ttl
             THEN loadItemsInclusive([S EXCEPT !.cache = mapSet(@, item),
                                               !.accessOrder = Append(@, item.key)],
                                     Tail(items))
             ELSE loadItemsInclusive(S, Tail(items))

RECURSIVE loadItems(_, _)
\* the loop of load() over data.cache
loadItems(S, items) ==
    IF items = <<>> THEN S
    ELSE LET item == Head(items)
         IN  IF now - item.createdAt < item.ttl
             THEN loadItems([S EXCEPT !.cache = mapSet(@, item),
                                      !.accessOrder = Append(@, item.key)],
                            Tail(items))
             ELSE loadItems(S, Tail(items))

\* load(): S is the store the constructor has just initialised
load(S) ==
    IF ~S.file.exists THEN S
    ELSE [loadItems([S EXCEPT !.cache = <<>>, !.accessOrder = <<>>], S.file.cache)
            EXCEPT !.stats = S.file.stats]

\* new CacheManager(options): the store of a fresh process
constructor(persist) ==
    LET S0 == [cache |-> <<>>, accessOrder |-> <<>>, stats |-> ZeroStats, file |-> file]
    IN  IF persist THEN load(S0) ELSE S0

----------------------------------------------------------------------------
(* Ghost bookkeeping *)

\* the key becomes the most recently accessed one
logAccess(log, key) == Append(SelectSeq(log, LAMBDA k : k # key), key)

\* the present key whose last access is the oldest
lruKey(c, log) ==
    LET present == SelectSeq(log, LAMBDA k : mapHas(c, k))
    IN  IF present = <<>> THEN NoKey ELSE Head(present)

NoApi == [model |-> JUndef, max_tokens |-> JUndef, system |-> JUndef, temperature |-> JUndef]

\* the result of a request: remote says whether a remote call was issued for it,
\* api holds the parameters of that call, model the model the remote reported
NoReply == [success |-> FALSE, fromCache |-> FALSE, content |-> NULL, usage |-> <<>>,
            error |-> NULL, model |-> NULL, remote |-> FALSE, api |-> NoApi]

\* what a step did: the operation, its key, what it returned
NoInput == [message |-> JUndef, options |-> NoOptions]

\* the options argument of sendMessage when the caller passes none
NoOverrides == [model |-> JUndef, maxTokens |-> JUndef, temperature |-> JUndef,
                disableCache |-> FALSE]

\* what a step did: the operation, its key, what it returned; for a request of
\* the pipeline also its options, its text with the options of generateKey, the
\* response and the history before the request; for an operation of the ledger
\* the ledger before it and the status or report it returned (status also holds
\* the messages of an outbound request and the arguments of other operations)
Did(op, key, ret) ==
    [op |-> op, key |-> key, ret |-> ret, request |-> NoOverrides, input |-> NoInput,
     reply |-> NoReply, before |-> <<>>, ledger |-> <<>>, status |-> <<>>]

Step == steps < budget /\ steps' = steps + 1 /\ UNCHANGED budget

Config == <<enabled, maxSize, persistenceEnabled>>

Assistant == <<conversation, currentMode, tokenTracker, pending, origin>>

Prices == <<modelPrices, audit>>

Streaming == <<streams, convFile>>

InstallStore(S) ==
    /\ cache' = S.cache
    /\ accessOrder' = S.accessOrder
    /\ stats' = S.stats
    /\ file' = S.file

----------------------------------------------------------------------------
(* ConversationManager *)

ASSISTANT_PRESETS ==
    [coding |-> [systemPrompt |-> "coding-prompt", temperature |-> 3, maxTokens |-> 1500],
     learning |-> [systemPrompt |-> "learning-prompt", temperature |-> 7, maxTokens |-> 1000],
     writing |-> [systemPrompt |-> "writing-prompt", temperature |-> 8, maxTokens |-> 1200],
     translator |-> [systemPrompt |-> "translator-prompt", temperature |-> 2, maxTokens |-> 800]]

\* new ConversationManager(undefined)
newConversation ==
    [sessionId |-> JStr("own"),      \* generateSessionId(): the id of this process's session
     conversationHistory |-> <<>>,
     systemPrompt |-> JNull,
     model |-> JStr(DEFAULT_MODEL),
     maxTokens |-> JNum(DEFAULT_MAX_TOKENS),
     temperature |-> JNum(7)]

\* new Message(role, content): the timestamp defaults to Date.now()
Message(role, content) == [role |-> role, content |-> content, timestamp |-> now]

addMessage(conv, role, content) ==
    [conv EXCEPT !.conversationHistory = Append(@, Message(role, content))]

\* the messages of the outbound request: role and content of every message
getFormattedHistory(conv) ==
    [i \in 1..Len(conv.conversationHistory) |->
        [role |-> conv.conversationHistory[i].role,
         content |-> conv.conversationHistory[i].content]]

popNone(seq) == seq

\* Array.prototype.pop
pop(seq) == IF seq = <<>> THEN seq ELSE SubSeq(seq, 1, Len(seq) - 1)

\* the apiParams chat() builds, without the messages
apiParams(conv, options) ==
    [model |-> or(options.model, conv.model),
     max_tokens |-> or(options.maxTokens, conv.maxTokens),
     system |-> IF falsy(conv.systemPrompt) THEN JUndef ELSE conv.systemPrompt,
     temperature |-> options.temperature]

\* ASSISTANT_PRESETS is an object literal: besides its own four keys it answers
\* to the names it inherits from Object.prototype with a value that is truthy
\* and has none of the fields of a preset
PrototypeKeys == {"constructor"}

\* ASSISTANT_PRESETS[mode] is truthy
hasPreset(mode) == mode \in DOMAIN ASSISTANT_PRESETS \cup PrototypeKeys

\* CleverAssistant.applyPreset; with an inherited name setSystemPrompt assigns
\* undefined and then throws on prompt.substring
applyPreset(conv, mode) ==
    IF mode \in DOMAIN ASSISTANT_PRESETS
    THEN [conv EXCEPT !.systemPrompt = JStr(ASSISTANT_PRESETS[mode].systemPrompt),
                      !.temperature = JNum(ASSISTANT_PRESETS[mode].temperature),
                      !.maxTokens = JNum(ASSISTANT_PRESETS[mode].maxTokens)]
    ELSE IF mode \in PrototypeKeys
         THEN [conv EXCEPT !.systemPrompt = JUndef]
         ELSE conv

\* applyPreset(mode) ends with a TypeError
applyPresetThrows(mode) == mode \in PrototypeKeys /\ mode \notin DOMAIN ASSISTANT_PRESETS

clearHistory(conv) == [conv EXCEPT !.conversationHistory = <<>>]

\* a file of the data directory: exists and parses tell whether readFileSync
\* and JSON.parse succeed, list whether data.messages is an array; saved is a
\* ghost, the context at the time the file was written
NoSnapshot ==
    [exists |-> FALSE, parses |-> FALSE, list |-> FALSE, sessionId |-> JOmitted,
     systemPrompt |-> JOmitted, model |-> JOmitted, messages |-> <<>>, saved |-> <<>>]

\* Message.toJSON, as JSON.stringify writes it
toJSON(msg) == [role |-> msg.role, content |-> msg.content, timestamp |-> msg.timestamp]

fromJSONNow(json) == [role |-> json.role, content |-> json.content, timestamp |-> now]

\* Message.fromJSON
fromJSON(json) == [role |-> json.role, content |-> json.content, timestamp |-> json.timestamp]

\* the document saveConversation() writes, without createdAt
saveConversation(conv) ==
    [exists |-> TRUE, parses |-> TRUE, list |-> TRUE,
     sessionId |-> stringifyProp(conv.sessionId),
     systemPrompt |-> stringifyProp(conv.systemPrompt),
     model |-> stringifyProp(conv.model),
     messages |-> [i \in 1..Len(conv.conversationHistory) |->
                      toJSON(conv.conversationHistory[i])],
     saved |-> conv]

\* data.p for a property of a parsed document: undefined when it was left out
property(v) == IF v = JOmitted THEN JUndef ELSE v

\* loadConversation(filename) on the file doc: the new context and the returned
\* boolean. The three fields are assigned before data.messages.map is evaluated.
loadConversation(conv, doc) ==
    IF ~doc.exists \/ ~doc.parses
    THEN [conv |-> conv, ret |-> FALSE]
    ELSE LET assigned == [conv EXCEPT !.sessionId = property(doc.sessionId),
                                      !.systemPrompt = property(doc.systemPrompt),
                                      !.model = property(doc.model)]
         IN  IF ~doc.list
             THEN [conv |-> assigned, ret |-> FALSE]
             ELSE [conv |-> [assigned EXCEPT !.conversationHistory =
                                [i \in 1..Len(doc.messages) |-> fromJSON(doc.messages[i])]],
                   ret |-> TRUE]

----------------------------------------------------------------------------
(* TokenTracker; a cost is counted in units of 0.25 dollars per million tokens *)

MODEL_PRICES ==
    [sonnet |-> [input |-> 12, output |-> 60],
     opus |-> [input |-> 60, output |-> 300],
     haiku |-> [input |-> 1, output |-> 5],
     glm |-> [input |-> 2, output |-> 2]]

getModelPrice(model) ==
    IF model \in DOMAIN modelPrices THEN modelPrices[model] ELSE modelPrices[DEFAULT_MODEL]

calculateSingleCallCost(inputTokens, outputTokens, model) ==
    inputTokens * getModelPrice(model).input + outputTokens * getModelPrice(model).output

RECURSIVE sumCost(_)
sumCost(records) == IF records = <<>> THEN 0 ELSE Head(records).cost + sumCost(Tail(records))

RECURSIVE sumRepriced(_)
sumRepriced(records) ==
    IF records = <<>> THEN 0
    ELSE calculateSingleCallCost(Head(records).inputTokens, Head(records).outputTokens,
                                 Head(records).model)
         + sumRepriced(Tail(records))

getTotalCostRepriced(tt) == sumRepriced(tt.callHistory)

getTotalCost(tt) == sumCost(tt.callHistory)

checkBudgetLenient(tt) ==
    LET currentCost == getTotalCost(tt)
    IN  [currentCost |-> currentCost,
         budgetLimit |-> tt.budgetLimit,
         remaining |-> tt.budgetLimit - currentCost,
         isOverBudget |-> FALSE,
         isNearLimit |-> currentCost * 10 >= tt.budgetLimit * tt.warnThreshold]

checkBudgetStrict(tt) ==
    LET currentCost == getTotalCost(tt)
    IN  [currentCost |-> currentCost,
         budgetLimit |-> tt.budgetLimit,
         remaining |-> tt.budgetLimit - currentCost,
         isOverBudget |-> currentCost > tt.budgetLimit,
         isNearLimit |-> currentCost * 10 >= tt.budgetLimit * tt.warnThreshold]

\* warnThreshold is kept in tenths: cost >= limit * (w / 10) is cost * 10 >= limit * w
checkBudget(tt) ==
    LET currentCost == getTotalCost(tt)
    IN  [currentCost |-> currentCost,
         budgetLimit |-> tt.budgetLimit,
         remaining |-> tt.budgetLimit - currentCost,
         isOverBudget |-> currentCost >= tt.budgetLimit,
         isNearLimit |-> currentCost * 10 >= tt.budgetLimit * tt.warnThreshold]

resetKeepHistory(tt) ==
    [tt EXCEPT !.totalInputTokens = 0, !.totalOutputTokens = 0, !.totalRequests = 0]

\* TokenTracker.reset
reset(tt) ==
    [tt EXCEPT !.totalInputTokens = 0, !.totalOutputTokens = 0, !.totalRequests = 0,
               !.callHistory = <<>>]

\* new TokenTracker(budgetLimit)
newTokenTracker(budgetLimit) ==
    [totalInputTokens |-> 0, totalOutputTokens |-> 0, totalRequests |-> 0,
     callHistory |-> <<>>, budgetLimit |-> budgetLimit,
     warnThreshold |-> WARN_THRESHOLD_TENTHS]

recordCallCountersOnly(tt, inputTokens, outputTokens, model) ==
    [tt EXCEPT !.totalInputTokens = @ + inputTokens,
               !.totalOutputTokens = @ + outputTokens,
               !.totalRequests = @ + 1]

recordCall(tt, inputTokens, outputTokens, model) ==
    [tt EXCEPT !.totalInputTokens = @ + inputTokens,
               !.totalOutputTokens = @ + outputTokens,
               !.totalRequests = @ + 1,
               !.callHistory = Append(@, [timestamp |-> now,
                                          inputTokens |-> inputTokens,
                                          outputTokens |-> outputTokens,
                                          totalTokens |-> inputTokens + outputTokens,
                                          model |-> model,
                                          cost |-> calculateSingleCallCost(inputTokens, outputTokens, model)])]

RECURSIVE sumField(_, _)
\* the += of getReport over the records, for one of their fields
sumField(records, f) ==
    IF records = <<>> THEN 0 ELSE Head(records)[f] + sumField(Tail(records), f)

\* Array.prototype.slice(-n); -0 is 0, so slice(-0) is slice(0), the whole array
sliceLast(seq, n) ==
    IF n = 0 \/ Len(seq) <= n THEN seq ELSE SubSeq(seq, Len(seq) - n + 1, Len(seq))

\* Math.round(a / b) for a >= 0, b > 0
roundDiv(a, b) == (2 * a + b) \div (2 * b)

\* getReport(): what it returns (usagePercentage, a display string, left out)
getReport(tt) ==
    LET budgetStatus == checkBudget(tt)
        models == {tt.callHistory[i].model : i \in 1..Len(tt.callHistory)}
        recordsOf(m) == SelectSeq(tt.callHistory, LAMBDA r : r.model = m)
    IN  [summary |-> [totalRequests |-> tt.totalRequests,
                      totalInputTokens |-> tt.totalInputTokens,
                      totalOutputTokens |-> tt.totalOutputTokens,
                      totalTokens |-> tt.totalInputTokens + tt.totalOutputTokens,
                      totalCost |-> budgetStatus.currentCost,
                      averageTokensPerRequest |->
                          IF tt.totalRequests > 0
                          THEN roundDiv(tt.totalInputTokens + tt.totalOutputTokens,
                                        tt.totalRequests)
                          ELSE 0],
         budget |-> budgetStatus,
         byModel |-> [m \in models |->
                         [calls |-> Len(recordsOf(m)),
                          inputTokens |-> sumField(recordsOf(m), "inputTokens"),
                          outputTokens |-> sumField(recordsOf(m), "outputTokens"),
                          totalTokens |-> sumField(recordsOf(m), "totalTokens"),
                          cost |-> sumField(recordsOf(m), "cost")]],
         recentCalls |-> sliceLast(tt.callHistory, 10)]

\* estimate(estimatedInputTokens, estimatedOutputTokens, model): what it returns
estimate(tt, estimatedInputTokens, estimatedOutputTokens, model) ==
    LET estimatedCost ==
            calculateSingleCallCost(estimatedInputTokens, estimatedOutputTokens, model)
        newTotalCost == getTotalCost(tt) + estimatedCost
    IN  [estimatedCost |-> estimatedCost,
         estimatedInputTokens |-> estimatedInputTokens,
         estimatedOutputTokens |-> estimatedOutputTokens,
         estimatedTotalTokens |-> estimatedInputTokens + estimatedOutputTokens,
         currentTotalCost |-> getTotalCost(tt),
         newTotalCost |-> newTotalCost,
         wouldExceedBudget |-> newTotalCost > tt.budgetLimit,
         remainingAfterCall |-> tt.budgetLimit - newTotalCost]

----------------------------------------------------------------------------
(* Initial state: a process that has just constructed its objects, no cache file *)

InitWith(b) ==
    /\ budget = b
    /\ steps = 0
    /\ now = 0
    /\ file = NoFile
    /\ enabled \in BOOLEAN
    /\ maxSize \in 1..MaxCap
    /\ persistenceEnabled \in BOOLEAN
    /\ cache = <<>>
    /\ accessOrder = <<>>
    /\ stats = ZeroStats
    /\ conversation = applyPreset(newConversation, "learning")
    /\ currentMode = "learning"
    /\ tokenTracker = newTokenTracker(BudgetLimit)
    /\ modelPrices = MODEL_PRICES
    /\ audit = <<>>
    /\ pending = <<>>
    /\ streams = <<>>
    /\ convFile = NoSnapshot
    /\ origin = {}
    /\ accessLog = <<>>
    /\ keyProbe = [set |-> FALSE, input |-> NoInput, key |-> NoKey]
    /\ last = Did("init", NoKey, NULL)

Init == InitWith(MaxSteps)
InitLong == InitWith(MaxSteps + 1)

----------------------------------------------------------------------------
(* Operations of the store, called directly *)

Tick ==
    /\ Step
    /\ now < MaxTime
    /\ now' = now + 1
    /\ last' = Did("tick", NoKey, NULL)
    /\ UNCHANGED <<file, Config, cache, accessOrder, stats, accessLog, keyProbe, Assistant, Prices,
                   Streaming>>

Get(key) ==
    /\ Step
    /\ LET r == get(Store, key)
       IN  /\ InstallStore(r.S)
           /\ last' = Did("get", key, r.ret)
           /\ accessLog' = IF r.ret # NULL THEN logAccess(accessLog, key) ELSE accessLog
    /\ UNCHANGED <<Streaming, now, Config, keyProbe, Assistant, Prices>>

Set(key, value, ttl) ==
    /\ Step
    /\ LET r == set(Store, key, value, ttl)
       IN  /\ InstallStore(r.S)
           /\ last' = Did("set", key, IF r.ret THEN "true" ELSE "false")
           /\ accessLog' = IF r.ret THEN logAccess(accessLog, key) ELSE accessLog
    /\ UNCHANGED <<Streaming, now, Config, keyProbe, Assistant, Prices>>

Delete(key) ==
    /\ Step
    /\ InstallStore(delete(Store, key))
    /\ last' = Did("delete", key, IF mapHas(cache, key) THEN "true" ELSE "false")
    /\ UNCHANGED <<Streaming, now, Config, accessLog, keyProbe, Assistant, Prices>>

Clear ==
    /\ Step
    /\ InstallStore(clear(Store))
    /\ last' = Did("clear", NoKey, NULL)
    /\ UNCHANGED <<Streaming, now, Config, accessLog, keyProbe, Assistant, Prices>>

Cleanup ==
    /\ Step
    /\ InstallStore(cleanup(Store).S)
    /\ last' = Did("cleanup", NoKey, NULL)
    /\ UNCHANGED <<Streaming, now, Config, accessLog, keyProbe, Assistant, Prices>>

\* the process ends and a new one constructs its CacheManager from the options
\* and environment of that run
Restart(en, ms, persist) ==
    /\ Step
    /\ enabled' = en
    /\ maxSize' = ms
    /\ persistenceEnabled' = persist
    /\ InstallStore(constructor(persist))
    /\ last' = Did("restart", NoKey, NULL)
    /\ UNCHANGED <<Streaming, now, accessLog, keyProbe, Assistant, Prices>>

StoreNext ==
    \/ Tick
    \/ \E k \in Keys : Get(k)
    \/ \E k \in Keys, v \in Values, ttl \in TTLs : Set(k, v, ttl)
    \/ \E k \in Keys : Delete(k)
    \/ Clear
    \/ Cleanup
    \/ \E en \in BOOLEAN, ms \in 1..MaxCap, p \in BOOLEAN : Restart(en, ms, p)

StoreSpec == Init /\ [][StoreNext]_vars
StoreSpecLong == InitLong /\ [][StoreNext]_vars

----------------------------------------------------------------------------
(* CleverAssistant: the request pipeline *)

RequestOptions ==
    {NoOverrides,
     [NoOverrides EXCEPT !.model = JStr("opus")],
     [NoOverrides EXCEPT !.disableCache = TRUE]}

Contents == {"", "x"}
InputTokens == {1, 4}
ReportedModels == {"sonnet", "haiku"}
Modes == {"learning", "coding"}

\* the options sendMessage hands to generateKey
keyOptions(conv) ==
    [model |-> conv.model, maxTokens |-> JUndef, temperature |-> conv.temperature,
     systemPrompt |-> conv.systemPrompt]

\* a cached response counts only if it is truthy
truthy(value) == value # NULL /\ value # ""

\* sendMessage(userInput, options) up to its return or to the await of the remote call
SendMessage(userInput, options) ==
    /\ Step
    /\ Len(pending) < MaxInflight
    /\ IF checkBudget(tokenTracker).isOverBudget
       THEN /\ last' = [Did("sendMessage", NoKey, NULL) EXCEPT
                          !.request = options,
                          !.input = [message |-> JStr(userInput),
                                     options |-> keyOptions(conversation)],
                          !.reply.error = "budget",
                          !.before = conversation.conversationHistory]
            /\ UNCHANGED <<file, cache, accessOrder, stats, conversation, pending,
                           accessLog, keyProbe>>
       ELSE LET input == [message |-> JStr(userInput), options |-> keyOptions(conversation)]
                cacheKey == generateKey(input.message, input.options)
                r == get(Store, cacheKey)
                hit == truthy(r.ret) /\ ~options.disableCache
                api == apiParams(conversation, options)
            IN  /\ InstallStore(r.S)
                /\ accessLog' = IF r.ret # NULL THEN logAccess(accessLog, cacheKey) ELSE accessLog
                /\ keyProbe' = IF keyProbe.set THEN keyProbe
                               ELSE [set |-> TRUE, input |-> input, key |-> cacheKey]
                /\ conversation' =
                      IF hit
                      THEN addMessage(addMessage(conversation, "user", userInput),
                                      "assistant", r.ret)
                      ELSE addMessage(conversation, "user", userInput)
                /\ pending' =
                      IF hit THEN pending
                      ELSE Append(pending, [userInput |-> userInput, cacheKey |-> cacheKey,
                                            api |-> api,
                                            before |-> conversation.conversationHistory])
                /\ last' = [Did("sendMessage", cacheKey, r.ret) EXCEPT
                              !.request = options,
                              !.input = input,
                              !.reply = [NoReply EXCEPT
                                            !.success = hit, !.fromCache = hit,
                                            !.content = IF hit THEN r.ret ELSE NULL,
                                            !.remote = ~hit, !.api = api],
                              !.status = IF hit THEN <<>>
                                         ELSE getFormattedHistory(
                                                  addMessage(conversation, "user", userInput)),
                              !.before = conversation.conversationHistory]
    /\ UNCHANGED <<Streaming, now, Config, currentMode, tokenTracker, origin, Prices>>

\* the remote call of pending request i succeeds: the rest of chat(), then of sendMessage
RemoteSuccess(i, text, inputTokens, outputTokens, model) ==
    /\ Step
    /\ i \in 1..Len(pending)
    /\ LET req == pending[i]
           tt == recordCall(tokenTracker, inputTokens, outputTokens, model)
           r == set(Store, req.cacheKey, text, 0)
       IN  /\ conversation' = addMessage(conversation, "assistant", text)
           /\ tokenTracker' = tt
           /\ audit' = Append(audit, modelPrices)
           /\ InstallStore(r.S)
           /\ accessLog' = IF r.ret THEN logAccess(accessLog, req.cacheKey) ELSE accessLog
           /\ origin' = IF r.ret
                        THEN {o \in origin : o.key # req.cacheKey}
                                 \cup {[key |-> req.cacheKey, api |-> req.api]}
                        ELSE origin
           /\ last' = [Did("reply", req.cacheKey, text) EXCEPT
                         !.input.message = JStr(req.userInput),
                         !.reply = [NoReply EXCEPT
                                       !.success = TRUE, !.content = text,
                                       !.usage = <<inputTokens, outputTokens>>,
                                       !.model = model, !.api = req.api],
                         !.before = req.before,
                         !.ledger = tokenTracker]
    /\ pending' = splice(pending, i)
    /\ UNCHANGED <<Streaming, now, Config, currentMode, keyProbe, modelPrices>>

\* the remote call of pending request i throws: the catch branch of chat()
RemoteFailure(i) ==
    /\ Step
    /\ i \in 1..Len(pending)
    /\ conversation' = [conversation EXCEPT !.conversationHistory = pop(@)]
    /\ last' = [Did("reply", pending[i].cacheKey, NULL) EXCEPT
                  !.input.message = JStr(pending[i].userInput),
                  !.reply.error = "upstream",
                  !.reply.api = pending[i].api,
                  !.before = pending[i].before]
    /\ pending' = splice(pending, i)
    /\ UNCHANGED <<Streaming, now, file, Config, cache, accessOrder, stats, currentMode, tokenTracker,
                   origin, accessLog, keyProbe, Prices>>

\* switchMode(mode); written tells whether the writeFileSync of saveConversation
\* succeeds. An unknown mode throws before anything else; a failed write is
\* logged by saveConversation and switchMode goes on.
SwitchMode(mode, written) ==
    /\ Step
    /\ IF ~hasPreset(mode)
       THEN /\ last' = [Did("switchMode", NoKey, NULL) EXCEPT
                          !.input.message = JStr(mode),
                          !.reply.error = "unknown mode",
                          !.status = DOMAIN ASSISTANT_PRESETS,
                          !.before = conversation.conversationHistory]
            /\ UNCHANGED <<conversation, currentMode, convFile>>
       ELSE /\ convFile' = IF written THEN saveConversation(conversation) ELSE convFile
            /\ conversation' = applyPreset(clearHistory(conversation), mode)
            /\ currentMode' = IF applyPresetThrows(mode) THEN currentMode ELSE mode
            /\ last' = [Did("switchMode", NoKey, NULL) EXCEPT
                          !.input.message = JStr(mode),
                          !.reply.success = ~applyPresetThrows(mode),
                          !.reply.error = IF applyPresetThrows(mode) THEN "TypeError" ELSE NULL,
                          !.status = <<written>>,
                          !.before = conversation.conversationHistory]
    /\ UNCHANGED <<streams, now, file, Config, cache, accessOrder, stats, tokenTracker, pending,
                   origin, accessLog, keyProbe, Prices>>

\* the process ends and a new one constructs its CleverAssistant
RestartProcess(en, ms, persist) ==
    /\ Step
    /\ enabled' = en
    /\ maxSize' = ms
    /\ persistenceEnabled' = persist
    /\ InstallStore(constructor(persist))
    /\ conversation' = applyPreset(newConversation, "learning")
    /\ currentMode' = "learning"
    /\ tokenTracker' = newTokenTracker(BudgetLimit)
    /\ modelPrices' = MODEL_PRICES
    /\ audit' = <<>>
    /\ pending' = <<>>
    /\ streams' = <<>>
    /\ convFile' = NoSnapshot
    /\ last' = Did("restart", NoKey, NULL)
    /\ UNCHANGED <<now, origin, accessLog, keyProbe>>

Next ==
    \/ Tick
    \/ \E m \in {"a", "b"}, o \in RequestOptions : SendMessage(m, o)
    \/ \E i \in 1..MaxInflight, c \in Contents, n \in InputTokens, m \in ReportedModels :
          RemoteSuccess(i, c, n, 1, m)
    \/ \E i \in 1..MaxInflight : RemoteFailure(i)
    \/ \E mode \in Modes, written \in BOOLEAN : SwitchMode(mode, written)
    \/ \E en \in BOOLEAN, ms \in 1..MaxCap, p \in BOOLEAN : RestartProcess(en, ms, p)

Spec == Init /\ [][Next]_vars

----------------------------------------------------------------------------
(* generateKey called directly with concrete values for all five inputs *)

KeyMessages == {JStr("a"), JStr("b")}
KeyModels == {JStr(""), JStr(DEFAULT_MODEL), JStr("opus")}
KeyMaxTokens == {JNum(0), JNum(DEFAULT_MAX_TOKENS), JNum(800)}
KeyTemperatures == {JNum(0), JNum(7)}
KeyPrompts == {JStr(""), JStr("p")}

GenerateKey(message, options) ==
    /\ Step
    /\ LET input == [message |-> message, options |-> options]
           key == generateKey(message, options)
       IN  /\ keyProbe' = IF keyProbe.set THEN keyProbe
                          ELSE [set |-> TRUE, input |-> input, key |-> key]
           /\ last' = [Did("generateKey", key, NULL) EXCEPT !.input = input]
    /\ UNCHANGED <<Streaming, now, file, Config, cache, accessOrder, stats, accessLog, Assistant, Prices>>

KeyNext ==
    \E m \in KeyMessages, mo \in KeyModels, mt \in KeyMaxTokens,
       t \in KeyTemperatures, p \in KeyPrompts :
        GenerateKey(m, [model |-> mo, maxTokens |-> mt, temperature |-> t, systemPrompt |-> p])

KeySpec == Init /\ [][KeyNext]_vars

----------------------------------------------------------------------------
(* Properties of the store *)

StoreOps == {"set", "get", "delete", "clear", "cleanup"}

noDuplicates(seq) == \A i, j \in 1..Len(seq) : seq[i] = seq[j] => i = j

\* C1: after every completed store operation the number of entries is at most maxSize
CapacityBound == last.op \in StoreOps => Len(cache) <= maxSize

\* C2: a set of an absent key on a full store evicts exactly one entry, the one
\* whose last access (set or successful get) is the oldest
LRUVictim ==
    [][(last'.op = "set" /\ enabled /\ ~mapHas(cache, last'.key) /\ Len(cache) = maxSize)
        => keysOf(cache') = (keysOf(cache) \ {lruKey(cache, accessLog)}) \cup {last'.key}]_vars

\* C3: accessOrder holds exactly the keys of the entry map, each exactly once
AccessOrderConsistent ==
    /\ {accessOrder[i] : i \in 1..Len(accessOrder)} = keysOf(cache)
    /\ noDuplicates(accessOrder)
    /\ noDuplicates([i \in 1..Len(cache) |-> cache[i].key])

AccessOrderWitness == last.op = "restart" /\ Len(cache) = 2 /\ stats.evictions >= 1

\* C4: a get at now >= createdAt + ttl (equality included) returns absent, removes
\* the entry from the map and from accessOrder and counts a miss
TTLExpiryOnRead ==
    [][(/\ last'.op = "get"
        /\ enabled
        /\ mapHas(cache, last'.key)
        /\ now >= mapGet(cache, last'.key).createdAt + mapGet(cache, last'.key).ttl)
        => /\ last'.ret = NULL
           /\ ~mapHas(cache', last'.key)
           /\ indexOf(accessOrder', last'.key, 1) = 0
           /\ stats'.misses = stats.misses + 1]_vars

\* the effect of a hit on key k: value returned, the entry's hits and stats.hits
\* incremented, k moved to the most recent end, everything else as it was
HitEffect(k) ==
    LET item == mapGet(cache, k)
    IN  /\ last'.ret = item.value
        /\ cache' = [i \in 1..Len(cache) |->
                        IF cache[i].key = k THEN [item EXCEPT !.hits = @ + 1] ELSE cache[i]]
        /\ stats' = [stats EXCEPT !.hits = @ + 1]
        /\ accessOrder' = Append(SelectSeq(accessOrder, LAMBDA x : x # k), k)

\* C5 as stated: get on a present, unexpired entry has the effect of a hit
FreshHitAlways ==
    [][(/\ last'.op = "get"
        /\ mapHas(cache, last'.key)
        /\ ~isExpired(mapGet(cache, last'.key)))
        => HitEffect(last'.key)]_vars

\* C5 amended: on an enabled cache, get on a present, unexpired entry has the
\* effect of a hit
FreshHit ==
    [][(/\ last'.op = "get"
        /\ enabled
        /\ mapHas(cache, last'.key)
        /\ ~isExpired(mapGet(cache, last'.key)))
        => HitEffect(last'.key)]_vars

FreshHitWitness ==
    /\ last.op = "get"
    /\ last.ret # NULL
    /\ Len(cache) = 2
    /\ cache[1].key = last.key
    /\ cache[1].hits = 1
    /\ accessOrder[2] = last.key

\* C6: on a disabled cache get returns absent and set returns false, and neither
\* changes the entries, accessOrder, stats or the cache file
DisabledInert ==
    [][(~enabled /\ last'.op \in {"get", "set"})
        => /\ last'.op = "get" => last'.ret = NULL
           /\ last'.op = "set" => last'.ret = "false"
           /\ UNCHANGED <<cache, accessOrder, stats, file>>]_vars

DisabledInertWitness ==
    ~enabled /\ last.op = "get" /\ mapHas(cache, last.key) /\ ~isExpired(mapGet(cache, last.key))

----------------------------------------------------------------------------
(* Properties of key derivation and of the pipeline *)

KeyDiscrimination ==
    (last.op = "generateKey" /\ last.input # keyProbe.input) => last.key # keyProbe.key

\* C9: a response served from the cache was produced by a call with the model,
\* maxTokens, temperature and system prompt that are in effect for this request
KeyCoversParameters ==
    (last.op = "sendMessage" /\ last.reply.fromCache)
        => [key |-> last.key, api |-> last.reply.api] \in origin

\* C10: a request (cache consulted, disableCache not set) that finds a fresh entry
\* for its key returns it as a cache hit: success, the cached value, fromCache,
\* no usage, one user and one assistant message, no remote call, ledger untouched
CacheHitPath ==
    [][(/\ last'.op = "sendMessage"
        /\ last'.key # NoKey
        /\ enabled
        /\ mapHas(cache, last'.key)
        /\ ~isExpired(mapGet(cache, last'.key))
        /\ ~last'.request.disableCache)
        => /\ last'.reply.success
           /\ last'.reply.fromCache
           /\ last'.reply.content = mapGet(cache, last'.key).value
           /\ last'.reply.usage = <<>>
           /\ ~last'.reply.remote
           /\ conversation'.conversationHistory =
                  conversation.conversationHistory \o
                      <<Message("user", last'.input.message.s),
                        Message("assistant", mapGet(cache, last'.key).value)>>
           /\ pending' = pending
           /\ tokenTracker' = tokenTracker]_vars

----------------------------------------------------------------------------
(* Properties of the request pipeline *)

\* the key of the request of a sendMessage step
requestKey(did) == generateKey(did.input.message, did.input.options)

\* the ledger is at or over its limit
overBudget(tt) == getTotalCost(tt) >= tt.budgetLimit

\* the cache holds an unexpired entry for key k that a lookup returns
freshEntry(k) == enabled /\ mapHas(cache, k) /\ ~isExpired(mapGet(cache, k))

\* C11: the cache check comes before the budget gate: a request whose key has a
\* fresh entry is answered from the cache even when the ledger is over budget
CacheBeforeBudget ==
    [][(/\ last'.op = "sendMessage"
        /\ overBudget(tokenTracker)
        /\ ~last'.request.disableCache
        /\ freshEntry(requestKey(last'))
        /\ truthy(mapGet(cache, requestKey(last')).value))
        => /\ last'.reply.success
           /\ last'.reply.fromCache
           /\ last'.reply.content = mapGet(cache, requestKey(last')).value]_vars

\* C12: a request that misses the cache while the ledger is at or over its limit
\* fails with content null and without a remote call, and leaves the history, the
\* cache entries, the cache stats and the ledger as they were
BudgetDenial ==
    [][(/\ last'.op = "sendMessage"
        /\ overBudget(tokenTracker)
        /\ ~freshEntry(requestKey(last')))
        => /\ ~last'.reply.success
           /\ last'.reply.content = NULL
           /\ last'.reply.error = "budget"
           /\ ~last'.reply.remote
           /\ pending' = pending
           /\ UNCHANGED <<conversation, cache, accessOrder, stats, file, tokenTracker>>]_vars

BudgetDenialWitness ==
    /\ last.op = "sendMessage"
    /\ last.reply.error = "budget"
    /\ overBudget(tokenTracker)
    /\ enabled
    /\ cache # <<>>
    /\ ~freshEntry(requestKey(last))

\* the history still starts with what it was before the request of step did,
\* followed by the user message of that request
userTurnInPlace(history, did) ==
    /\ Len(history) > Len(did.before)
    /\ SubSeq(history, 1, Len(did.before)) = did.before
    /\ history[Len(did.before) + 1].role = "user"
    /\ history[Len(did.before) + 1].content = did.input.message.s

\* C13: when the remote call of a request fails the request returns a failure with
\* the upstream error, the user message the request appended is removed from the
\* history and nothing else is (with no other request in between the history is
\* what it was before the request), no record is added to the ledger and no cache
\* entry is written
FailureRollback ==
    [][(/\ last'.op = "reply"
        /\ ~last'.reply.success
        /\ userTurnInPlace(conversation.conversationHistory, last'))
        => /\ last'.reply.content = NULL
           /\ last'.reply.error = "upstream"
           /\ conversation'.conversationHistory =
                  splice(conversation.conversationHistory, Len(last'.before) + 1)
           /\ tokenTracker' = tokenTracker
           /\ UNCHANGED <<cache, accessOrder, stats, file>>]_vars

----------------------------------------------------------------------------
(* The command-line loop: it awaits each request before it reads the next line *)

SerialSendMessage(userInput, options) == pending = <<>> /\ SendMessage(userInput, options)

SerialSwitchMode(mode, written) == pending = <<>> /\ SwitchMode(mode, written)

SerialRestartProcess(en, ms, persist) == pending = <<>> /\ RestartProcess(en, ms, persist)

SerialNext ==
    \/ Tick
    \/ \E m \in {"a", "b"}, o \in RequestOptions : SerialSendMessage(m, o)
    \/ \E c \in Contents, n \in InputTokens, m \in ReportedModels : RemoteSuccess(1, c, n, 1, m)
    \/ RemoteFailure(1)
    \/ \E mode \in Modes, written \in BOOLEAN : SerialSwitchMode(mode, written)
    \/ \E en \in BOOLEAN, ms \in 1..MaxCap, p \in BOOLEAN : SerialRestartProcess(en, ms, p)

SerialSpec == Init /\ [][SerialNext]_vars

RECURSIVE alternates(_, _)
\* the roles of the messages from position i on are user, assistant, user, ...
alternates(history, i) ==
    IF i > Len(history) THEN TRUE
    ELSE /\ history[i].role = (IF i % 2 = 1 THEN "user" ELSE "assistant")
         /\ alternates(history, i + 1)

\* with requests made one at a time, after a failed remote call the history is
\* what it was before the request
SerialRollback ==
    [][(last'.op = "reply" /\ ~last'.reply.success)
        => conversation'.conversationHistory = last'.before]_vars

\* C16: with requests made one at a time, between requests the history has even
\* length and alternates user, assistant, ..., starting with a user message
HistoryAlternates ==
    pending = <<>> =>
        /\ Len(conversation.conversationHistory) % 2 = 0
        /\ alternates(conversation.conversationHistory, 1)

HistoryAlternatesWitness ==
    /\ pending = <<>>
    /\ Len(conversation.conversationHistory) = 2
    /\ last.op = "reply"
    /\ last.reply.error = "upstream"

----------------------------------------------------------------------------
(* Properties of the success path *)

\* the effects of a successful remote call on the history and on the ledger: the
\* assistant turn is appended, and one record with the reported token counts and
\* model
historyAndLedgerGain ==
    /\ conversation'.conversationHistory =
           Append(conversation.conversationHistory,
                  Message("assistant", last'.reply.content))
    /\ Len(tokenTracker'.callHistory) = Len(tokenTracker.callHistory) + 1
    /\ SubSeq(tokenTracker'.callHistory, 1, Len(tokenTracker.callHistory))
           = tokenTracker.callHistory
    /\ LET record == tokenTracker'.callHistory[Len(tokenTracker'.callHistory)]
       IN  /\ record.inputTokens = last'.reply.usage[1]
           /\ record.outputTokens = last'.reply.usage[2]
           /\ record.model = last'.reply.model

\* the response text is in the cache under the key derived at the start
storedUnderRequestKey ==
    /\ mapHas(cache', last'.key)
    /\ mapGet(cache', last'.key).value = last'.reply.content

\* a request that goes to the remote model has appended its user turn
userTurnGain ==
    (last'.op = "sendMessage" /\ last'.reply.remote)
        => conversation'.conversationHistory =
               Append(conversation.conversationHistory,
                      Message("user", last'.input.message.s))

PipelineCaching ==
    [][(/\ last.op = "reply"
        /\ last.reply.success
        /\ last'.op = "sendMessage"
        /\ last'.request = NoOverrides
        /\ requestKey(last') = last.key
        /\ enabled
        /\ ~overBudget(tokenTracker))
        => /\ last'.reply.success
           /\ last'.reply.fromCache
           /\ last'.reply.content = last.reply.content
           /\ ~last'.reply.remote]_vars

----------------------------------------------------------------------------
(* TokenTracker called directly, with Config.MODEL_PRICES changed in between *)

\* (inputTokens, outputTokens, model) of the calls; "other" has no price row
TrackerCalls ==
    {<<1, 1, "sonnet">>, <<20, 20, "glm">>, <<25, 25, "glm">>, <<4, 1, "other">>}

PriceChanges ==
    {<<"sonnet", [input |-> 24, output |-> 120]>>, <<"glm", [input |-> 1, output |-> 1]>>}

RecordCall(inputTokens, outputTokens, model) ==
    /\ Step
    /\ tokenTracker' = recordCall(tokenTracker, inputTokens, outputTokens, model)
    /\ audit' = Append(audit, modelPrices)
    /\ last' = [Did("recordCall", NoKey, NULL) EXCEPT !.ledger = tokenTracker]
    /\ UNCHANGED <<Streaming, now, file, Config, cache, accessOrder, stats, conversation, currentMode,
                   modelPrices, pending, origin, accessLog, keyProbe>>

CheckBudget ==
    /\ Step
    /\ last' = [Did("checkBudget", NoKey, NULL) EXCEPT
                  !.ledger = tokenTracker,
                  !.status = checkBudget(tokenTracker)]
    /\ UNCHANGED <<Streaming, now, file, Config, cache, accessOrder, stats, accessLog, keyProbe,
                   Assistant, Prices>>

EstimateRecording(inputTokens, outputTokens, model) ==
    /\ Step
    /\ last' = [Did("estimate", NoKey, NULL) EXCEPT
                  !.request.model = JStr(model),
                  !.ledger = tokenTracker,
                  !.status = estimate(tokenTracker, inputTokens, outputTokens, model)]
    /\ tokenTracker' = recordCall(tokenTracker, inputTokens, outputTokens, model)
    /\ audit' = Append(audit, modelPrices)
    /\ UNCHANGED <<Streaming, now, file, Config, cache, accessOrder, stats, conversation, currentMode,
                   modelPrices, pending, origin, accessLog, keyProbe>>

Estimate(inputTokens, outputTokens, model) ==
    /\ Step
    /\ last' = [Did("estimate", NoKey, NULL) EXCEPT
                  !.request.model = JStr(model),
                  !.ledger = tokenTracker,
                  !.status = estimate(tokenTracker, inputTokens, outputTokens, model)]
    /\ UNCHANGED <<Streaming, now, file, Config, cache, accessOrder, stats, accessLog, keyProbe,
                   Assistant, Prices>>

GetReport ==
    /\ Step
    /\ last' = [Did("getReport", NoKey, NULL) EXCEPT
                  !.ledger = tokenTracker,
                  !.status = getReport(tokenTracker)]
    /\ UNCHANGED <<Streaming, now, file, Config, cache, accessOrder, stats, accessLog, keyProbe,
                   Assistant, Prices>>

Reset ==
    /\ Step
    /\ tokenTracker' = reset(tokenTracker)
    /\ audit' = <<>>
    /\ last' = [Did("reset", NoKey, NULL) EXCEPT !.ledger = tokenTracker]
    /\ UNCHANGED <<Streaming, now, file, Config, cache, accessOrder, stats, conversation, currentMode,
                   modelPrices, pending, origin, accessLog, keyProbe>>

\* an assignment to a row of the static Config.MODEL_PRICES
ChangePrice(model, row) ==
    /\ Step
    /\ modelPrices[model] # row
    /\ modelPrices' = [modelPrices EXCEPT ![model] = row]
    /\ last' = [Did("changePrice", NoKey, NULL) EXCEPT !.ledger = tokenTracker]
    /\ UNCHANGED <<Streaming, now, file, Config, cache, accessOrder, stats, accessLog, keyProbe,
                   Assistant, audit>>

TrackerNext ==
    \/ \E c \in TrackerCalls : RecordCall(c[1], c[2], c[3])
    \/ CheckBudget
    \/ \E c \in TrackerCalls : Estimate(c[1], c[2], c[3])
    \/ GetReport
    \/ Reset
    \/ \E c \in PriceChanges : ChangePrice(c[1], c[2])

TrackerSpec == Init /\ [][TrackerNext]_vars

----------------------------------------------------------------------------
(* Properties of the ledger *)

RECURSIVE recordedCost(_, _)
\* the sum of the cost fields of the first n records
recordedCost(records, n) ==
    IF n = 0 THEN 0 ELSE recordedCost(records, n - 1) + records[n].cost

\* C17: checkBudget returns currentCost = the sum of the recorded costs,
\* remaining = budgetLimit - currentCost, isOverBudget exactly when
\* currentCost >= budgetLimit and isNearLimit exactly when
\* currentCost >= budgetLimit * warnThreshold
BudgetStatus ==
    last.op = "checkBudget" =>
        LET total == recordedCost(tokenTracker.callHistory, Len(tokenTracker.callHistory))
        IN  /\ last.status.currentCost = total
            /\ last.status.budgetLimit = tokenTracker.budgetLimit
            /\ last.status.remaining = tokenTracker.budgetLimit - total
            /\ last.status.isOverBudget <=> total >= tokenTracker.budgetLimit
            /\ last.status.isNearLimit <=>
                   total * 10 >= tokenTracker.budgetLimit * WARN_THRESHOLD_TENTHS

\* a status asked for when the cost is exactly the limit
BudgetStatusWitness ==
    /\ last.op = "checkBudget"
    /\ Len(tokenTracker.callHistory) >= 1
    /\ last.status.currentCost = tokenTracker.budgetLimit
    /\ last.status.isOverBudget

\* C18: checkBudget, estimate and getReport leave the ledger as it is:
\* callHistory, the counters and currentCost
ReadOnlyBudgetOps ==
    [][last'.op \in {"checkBudget", "estimate", "getReport"}
        => /\ tokenTracker' = tokenTracker
           /\ getTotalCost(tokenTracker') = getTotalCost(tokenTracker)]_vars

ReadOnlyBudgetOpsWitness ==
    /\ last.op = "estimate"
    /\ Len(tokenTracker.callHistory) >= 1
    /\ last.status.estimatedCost > 0
    /\ last.status.currentTotalCost = getTotalCost(tokenTracker)

\* the cost of a record under the price table that was in effect when it was appended
costAt(record, table) ==
    LET row == IF record.model \in DOMAIN table THEN table[record.model]
               ELSE table[DEFAULT_MODEL]
    IN  record.inputTokens * row.input + record.outputTokens * row.output

RECURSIVE frozenCost(_, _, _)
frozenCost(records, tables, n) ==
    IF n = 0 THEN 0
    ELSE frozenCost(records, tables, n - 1) + costAt(records[n], tables[n])

\* C19: currentCost is the sum, over the records, of the cost under the price row
\* in effect when the record was appended, whatever the prices have become since
CostAdditivity ==
    /\ Len(audit) = Len(tokenTracker.callHistory)
    /\ getTotalCost(tokenTracker)
           = frozenCost(tokenTracker.callHistory, audit, Len(audit))
    /\ checkBudget(tokenTracker).currentCost = getTotalCost(tokenTracker)
    /\ \A i \in 1..Len(audit) :
           tokenTracker.callHistory[i].cost = costAt(tokenTracker.callHistory[i], audit[i])

\* two records appended under different prices, and the prices changed again or not
CostAdditivityWitness ==
    /\ Len(audit) = 2
    /\ audit[1] # audit[2]
    /\ getTotalCost(tokenTracker) # getTotalCostRepriced(tokenTracker)

\* C20: reset() empties callHistory and zeroes the counters, so currentCost is 0
\* and isOverBudget false for a positive limit; budgetLimit and warnThreshold stay
LedgerReset ==
    [][last'.op = "reset"
        => /\ tokenTracker'.callHistory = <<>>
           /\ tokenTracker'.totalRequests = 0
           /\ tokenTracker'.totalInputTokens = 0
           /\ tokenTracker'.totalOutputTokens = 0
           /\ checkBudget(tokenTracker').currentCost = 0
           /\ tokenTracker.budgetLimit > 0 => ~checkBudget(tokenTracker').isOverBudget
           /\ tokenTracker'.budgetLimit = tokenTracker.budgetLimit
           /\ tokenTracker'.warnThreshold = tokenTracker.warnThreshold]_vars

LedgerResetWitness ==
    /\ last.op = "reset"
    /\ Len(last.ledger.callHistory) >= 2
    /\ overBudget(last.ledger)

----------------------------------------------------------------------------
(* The conversation context called directly: addMessage, trimHistory and     *)
(* switchMode with any mode id, as POST /mode/:mode passes it                *)

MaxRounds == 2
Roles == {"user", "assistant"}
AllModes == {"coding", "poetry"} \cup PrototypeKeys

\* ConversationManager.trimHistory
trimHistory(conv, maxRounds) ==
    LET maxMessages == maxRounds * 2
    IN  IF Len(conv.conversationHistory) <= maxMessages
        THEN conv
        ELSE [conv EXCEPT !.conversationHistory = sliceLast(@, maxMessages)]

AddMessage(role, content) ==
    /\ Step
    /\ conversation' = addMessage(conversation, role, content)
    /\ last' = [Did("addMessage", NoKey, NULL) EXCEPT
                  !.before = conversation.conversationHistory]
    /\ UNCHANGED <<Streaming, now, file, Config, cache, accessOrder, stats, currentMode,
                   tokenTracker, pending, origin, accessLog, keyProbe, Prices>>

TrimHistory(maxRounds) ==
    /\ Step
    /\ conversation' = trimHistory(conversation, maxRounds)
    /\ last' = [Did("trimHistory", NoKey, NULL) EXCEPT
                  !.status = <<maxRounds>>,
                  !.before = conversation.conversationHistory]
    /\ UNCHANGED <<Streaming, now, file, Config, cache, accessOrder, stats, currentMode,
                   tokenTracker, pending, origin, accessLog, keyProbe, Prices>>

ContextNext ==
    \/ \E role \in Roles, content \in {"a", "x"} : AddMessage(role, content)
    \/ \E maxRounds \in 0..MaxRounds : TrimHistory(maxRounds)
    \/ \E mode \in AllModes, written \in BOOLEAN : SwitchMode(mode, written)

ContextSpec == Init /\ [][ContextNext]_vars

\* the last n elements of a sequence, in their order
lastOf(seq, n) == [i \in 1..n |-> seq[Len(seq) - n + i]]

\* C21: after trimHistory(maxRounds) the history is exactly the last
\* min(length, 2 * maxRounds) messages of the history before the call, in their
\* order; trimHistory(0) leaves an empty history
TrimBound ==
    [][last'.op = "trimHistory" =>
          LET h == conversation.conversationHistory
              m == 2 * last'.status[1]
              keep == IF Len(h) < m THEN Len(h) ELSE m
          IN  conversation'.conversationHistory = lastOf(h, keep)]_vars

\* the mode id of the step just taken, for a step of switchMode
switched == last'.input.message.s

\* C29: switchMode with an id that is not one of the presets fails with an error
\* listing the preset ids and changes nothing: currentMode, system prompt,
\* temperature, maxTokens and history stay and no snapshot is written
UnknownModeRejection ==
    [][last'.op = "switchMode" /\ switched \notin DOMAIN ASSISTANT_PRESETS =>
          /\ last'.reply.error = "unknown mode"
          /\ last'.status = DOMAIN ASSISTANT_PRESETS
          /\ UNCHANGED <<conversation, currentMode, convFile>>]_vars

\* C30: switchMode with a preset ends with an empty history and with currentMode,
\* system prompt, temperature and maxTokens those of the preset, and the history
\* is cleared only after its snapshot was written
PersistThenClear ==
    [][last'.op = "switchMode" /\ switched \in DOMAIN ASSISTANT_PRESETS =>
          /\ conversation'.conversationHistory = <<>>
          /\ currentMode' = switched
          /\ conversation'.systemPrompt = JStr(ASSISTANT_PRESETS[switched].systemPrompt)
          /\ conversation'.temperature = JNum(ASSISTANT_PRESETS[switched].temperature)
          /\ conversation'.maxTokens = JNum(ASSISTANT_PRESETS[switched].maxTokens)
          /\ last'.status = <<TRUE>>
          /\ convFile' = saveConversation(conversation)]_vars

----------------------------------------------------------------------------
(* Outbound request *)

\* the per-call override when one is given, otherwise the stored value
overrideOr(override, stored) == IF override = JUndef THEN stored ELSE override

\* C22: the request sent upstream carries the full history with the new user
\* message, the system prompt, and for model, maxTokens and temperature the
\* per-call override when one is given and otherwise the context's stored value
OutboundParameters ==
    [][last'.op = "sendMessage" /\ last'.reply.remote =>
          /\ last'.status = Append(getFormattedHistory(conversation),
                                   [role |-> "user", content |-> last'.input.message.s])
          /\ last'.reply.api.system = conversation.systemPrompt
          /\ last'.reply.api.model = overrideOr(last'.request.model, conversation.model)
          /\ last'.reply.api.max_tokens =
                overrideOr(last'.request.maxTokens, conversation.maxTokens)
          /\ last'.reply.api.temperature =
                overrideOr(last'.request.temperature, conversation.temperature)]_vars

----------------------------------------------------------------------------
(* POST /chat/stream: the route calls conversation.chatStream directly and   *)
(* writes a server-sent event for every onChunk call                         *)

StreamTexts == {"", "x", "y"}

\* the events of the upstream stream that chatStream reads
StreamEvents ==
    {[type |-> "content_block_delta", text |-> t, tokens |-> 0] : t \in StreamTexts}
        \cup {[type |-> "message_start", text |-> "", tokens |-> 2],
              [type |-> "message_delta", text |-> "", tokens |-> 1]}

\* an event written to the response
Sse(type, content) == [type |-> type, content |-> content]

prependChunk(fullContent, chunk) == chunk \o fullContent

\* fullContent += chunk
appendChunk(fullContent, chunk) == fullContent \o chunk

\* the body of the for-await loop of chatStream for one event
onEvent(st, event) ==
    IF event.type = "content_block_delta"
    THEN [st EXCEPT !.fullContent = appendChunk(@, event.text),
                    !.written = IF event.text # ""
                                THEN Append(@, Sse("content", event.text))
                                ELSE @,
                    !.arrived = Append(@, event.text)]
    ELSE IF event.type = "message_start"
         THEN [st EXCEPT !.inputTokens = event.tokens]
         ELSE [st EXCEPT !.outputTokens = event.tokens]

\* what a step of a streaming request reports: the events written so far, the
\* fragments that arrived, and whether the client is still connected
streamStatus(st, written) ==
    [written |-> written, arrived |-> st.arrived, connected |-> st.connected]

\* the route up to the await of the first stream event
StreamStart(message, options) ==
    /\ Step
    /\ Len(streams) < MaxInflight
    /\ LET api == apiParams(conversation, options)
           st == [userInput |-> message,
                  api |-> api,
                  fullContent |-> "",
                  inputTokens |-> 0,
                  outputTokens |-> 0,
                  model |-> conversation.model.s,
                  written |-> <<Sse("start", "")>>,
                  arrived |-> <<>>,
                  connected |-> TRUE,
                  before |-> conversation.conversationHistory]
       IN  /\ conversation' = addMessage(conversation, "user", message)
           /\ streams' = Append(streams, st)
           /\ last' = [Did("streamStart", NoKey, NULL) EXCEPT
                         !.request = options,
                         !.input.message = JStr(message),
                         !.reply.remote = TRUE,
                         !.reply.api = api,
                         !.before = conversation.conversationHistory,
                         !.ledger = tokenTracker,
                         !.status = streamStatus(st, st.written)]
    /\ UNCHANGED <<convFile, now, file, Config, cache, accessOrder, stats, currentMode,
                   tokenTracker, pending, origin, accessLog, keyProbe, Prices>>

\* the next event of stream i arrives
StreamEvent(i, event) ==
    /\ Step
    /\ i \in 1..Len(streams)
    /\ LET st == onEvent(streams[i], event)
       IN  /\ streams' = [streams EXCEPT ![i] = st]
           /\ last' = [Did("streamEvent", NoKey, NULL) EXCEPT
                         !.input.message = JStr(st.userInput),
                         !.before = st.before,
                         !.status = streamStatus(st, st.written)]
    /\ UNCHANGED <<convFile, now, file, Config, cache, accessOrder, stats, Assistant, Prices,
                   accessLog, keyProbe>>

\* stream i ends: the rest of chatStream, then the end event of the route
StreamEnd(i) ==
    /\ Step
    /\ i \in 1..Len(streams)
    /\ LET st == streams[i]
       IN  /\ conversation' = addMessage(conversation, "assistant", st.fullContent)
           /\ last' = [Did("streamEnd", NoKey, st.fullContent) EXCEPT
                         !.input.message = JStr(st.userInput),
                         !.reply = [NoReply EXCEPT
                                       !.success = TRUE, !.content = st.fullContent,
                                       !.usage = <<st.inputTokens, st.outputTokens>>,
                                       !.model = st.model, !.remote = TRUE,
                                       !.api = st.api],
                         !.before = st.before,
                         !.ledger = tokenTracker,
                         !.status = streamStatus(st, Append(st.written,
                                                            Sse("end", st.fullContent)))]
    /\ streams' = splice(streams, i)
    /\ UNCHANGED <<convFile, now, file, Config, cache, accessOrder, stats, currentMode,
                   tokenTracker, pending, origin, accessLog, keyProbe, Prices>>

\* the remote call or the stream of request i throws: the catch branch of
\* chatStream, then the end event of the route
StreamError(i) ==
    /\ Step
    /\ i \in 1..Len(streams)
    /\ LET st == streams[i]
       IN  /\ conversation' = [conversation EXCEPT !.conversationHistory = pop(@)]
           /\ last' = [Did("streamError", NoKey, NULL) EXCEPT
                         !.input.message = JStr(st.userInput),
                         !.reply.error = "upstream",
                         !.reply.remote = TRUE,
                         !.reply.api = st.api,
                         !.before = st.before,
                         !.ledger = tokenTracker,
                         !.status = streamStatus(st, st.written \o
                                        <<Sse("error", "upstream"), Sse("end", NULL)>>)]
    /\ streams' = splice(streams, i)
    /\ UNCHANGED <<convFile, now, file, Config, cache, accessOrder, stats, currentMode,
                   tokenTracker, pending, origin, accessLog, keyProbe, Prices>>

\* the client of stream i closes its connection; the route registers no
\* listener for it
Disconnect(i) ==
    /\ Step
    /\ i \in 1..Len(streams)
    /\ streams[i].connected
    /\ streams' = [streams EXCEPT ![i].connected = FALSE]
    /\ last' = [Did("disconnect", NoKey, NULL) EXCEPT
                  !.input.message = JStr(streams[i].userInput),
                  !.before = streams[i].before]
    /\ UNCHANGED <<convFile, now, file, Config, cache, accessOrder, stats, Assistant, Prices,
                   accessLog, keyProbe>>

StreamNext ==
    \/ \E m \in {"a", "b"} : StreamStart(m, NoOverrides)
    \/ \E i \in 1..MaxInflight, event \in StreamEvents : StreamEvent(i, event)
    \/ \E i \in 1..MaxInflight : StreamEnd(i)
    \/ \E i \in 1..MaxInflight : StreamError(i)
    \/ \E i \in 1..MaxInflight : Disconnect(i)

StreamSpec == Init /\ [][StreamNext]_vars

\* the web server: POST /chat, POST /mode/:mode and POST /chat/stream on the one
\* shared assistant
ServerNext == Next \/ StreamNext

ServerSpec == Init /\ [][ServerNext]_vars

----------------------------------------------------------------------------
(* Properties of streaming *)

RECURSIVE joinAll(_)
\* the concatenation of a sequence of strings
joinAll(texts) == IF texts = <<>> THEN "" ELSE Head(texts) \o joinAll(Tail(texts))

\* the fragments handed to onChunk, in the order of the calls
fragmentsDelivered(written) ==
    LET content == SelectSeq(written, LAMBDA e : e.type = "content")
    IN  [i \in 1..Len(content) |-> content[i].content]

\* the result of a stream that ended is successful, comes after every onChunk
\* call, and its content and the assistant message appended to the history are
\* the concatenation of all the fragments in their order of arrival
resultIsConcatenation ==
    /\ last'.reply.success
    /\ last'.status.written[Len(last'.status.written)].type = "end"
    /\ last'.reply.content = joinAll(last'.status.arrived)
    /\ conversation'.conversationHistory =
           Append(conversation.conversationHistory,
                  Message("assistant", joinAll(last'.status.arrived)))

eventsOf(written, type) == SelectSeq(written, LAMBDA e : e.type = type)

\* exactly one error event was written, after every fragment
oneErrorAfterFragments(written) ==
    /\ Len(eventsOf(written, "error")) = 1
    /\ \A i, j \in 1..Len(written) :
          written[i].type = "content" /\ written[j].type = "error" => i < j

\* C24: when the stream fails, before the first fragment or after some, the
\* user message the request appended is removed from the history and nothing
\* else is, no assistant message is appended, exactly one error event is handed
\* to onChunk after all the fragments, and the result is a failure
StreamFailure ==
    [][(/\ last'.op = "streamError"
        /\ userTurnInPlace(conversation.conversationHistory, last'))
        => /\ ~last'.reply.success
           /\ last'.reply.content = NULL
           /\ last'.reply.error = "upstream"
           /\ oneErrorAfterFragments(last'.status.written)
           /\ conversation'.conversationHistory =
                  splice(conversation.conversationHistory, Len(last'.before) + 1)]_vars

\* C25: when the client of a streaming request has disconnected, the request
\* commits no assistant message to the history, and once no stream is in flight
\* the history alternates user, assistant from a user message
StreamCancellation ==
    [][(/\ last'.op \in {"streamEnd", "streamError"}
        /\ ~last'.status.connected)
        => /\ Len(conversation'.conversationHistory) <= Len(conversation.conversationHistory)
           /\ streams' = <<>> =>
                 /\ Len(conversation'.conversationHistory) % 2 = 0
                 /\ alternates(conversation'.conversationHistory, 1)]_vars

\* the record recordCall appends for the usage and the model of a result
usageRecorded ==
    /\ Len(tokenTracker'.callHistory) = Len(tokenTracker.callHistory) + 1
    /\ LET record == tokenTracker'.callHistory[Len(tokenTracker'.callHistory)]
       IN  /\ record.inputTokens = last'.reply.usage[1]
           /\ record.outputTokens = last'.reply.usage[2]

\* C26: no remote call is issued for a streaming request while the ledger is at
\* or over its budget, and every successful streaming call appends one record
\* with its reported token usage to the ledger
StreamThroughPipeline ==
    [][/\ last'.op = "streamStart" /\ last'.reply.remote => ~overBudget(tokenTracker)
       /\ last'.op = "streamEnd" => usageRecorded]_vars

----------------------------------------------------------------------------
(* Properties of persistence *)

\* C27: with persistence enabled, after every operation of the store that
\* changes the entries, their hit counts or the stats, the cache file holds the
\* entries and the stats that are in memory
PersistAfterMutation ==
    [][(/\ persistenceEnabled
        /\ last'.op \in {"get", "set", "delete", "clear", "cleanup"}
        /\ <<cache, stats>>' # <<cache, stats>>)
        => /\ file'.exists
           /\ file'.cache = cache'
           /\ file'.stats = stats']_vars

\* the TTL of a snapshot entry has not elapsed
unelapsed(item) == now - item.createdAt < item.ttl

----------------------------------------------------------------------------
(* Conversation snapshots: saveConversation and loadConversation called      *)
(* directly, on the session's own file or on another file of the directory   *)

\* a snapshot another session wrote
OtherSnapshot ==
    [exists |-> TRUE, parses |-> TRUE, list |-> TRUE, sessionId |-> JStr("other"),
     systemPrompt |-> JStr("p"), model |-> JStr("opus"),
     messages |-> <<[role |-> "user", content |-> "a", timestamp |-> 0]>>, saved |-> <<>>]

\* the files loadConversation is pointed at: the session's own snapshot, a
\* missing file, one that is not JSON, one without a messages list, and the
\* snapshot of another session
Documents ==
    [own |-> convFile,
     missing |-> NoSnapshot,
     malformed |-> [OtherSnapshot EXCEPT !.parses = FALSE, !.list = FALSE, !.messages = <<>>],
     nolist |-> [OtherSnapshot EXCEPT !.list = FALSE, !.messages = <<>>],
     other |-> OtherSnapshot]

SaveConversation(written) ==
    /\ Step
    /\ convFile' = IF written THEN saveConversation(conversation) ELSE convFile
    /\ last' = [Did("saveConversation", NoKey, NULL) EXCEPT
                  !.status = <<written>>,
                  !.before = conversation.conversationHistory]
    /\ UNCHANGED <<streams, now, file, Config, cache, accessOrder, stats, Assistant, Prices,
                   accessLog, keyProbe>>

LoadConversation(f) ==
    /\ Step
    /\ LET r == loadConversation(conversation, Documents[f])
       IN  /\ conversation' = r.conv
           /\ last' = [Did("loadConversation", NoKey, IF r.ret THEN "true" ELSE "false") EXCEPT
                         !.input.message = JStr(f),
                         !.before = conversation.conversationHistory]
    /\ UNCHANGED <<Streaming, now, file, Config, cache, accessOrder, stats, currentMode,
                   tokenTracker, pending, origin, accessLog, keyProbe, Prices>>

SnapshotNext ==
    \/ Tick
    \/ \E role \in Roles : AddMessage(role, "x")
    \/ \E mode \in {"coding"} \cup PrototypeKeys : SwitchMode(mode, TRUE)
    \/ \E written \in BOOLEAN : SaveConversation(written)
    \/ \E f \in DOMAIN Documents : LoadConversation(f)

SnapshotSpec == Init /\ [][SnapshotNext]_vars

\* C31: loadConversation of a file written by saveConversation succeeds and
\* restores sessionId, systemPrompt, model and the history, with the roles,
\* contents, timestamps and order they had when the file was written
SnapshotRoundTrip ==
    [][(last'.op = "loadConversation" /\ last'.input.message.s = "own" /\ convFile.exists)
        => /\ last'.ret = "true"
           /\ conversation'.sessionId = convFile.saved.sessionId
           /\ conversation'.systemPrompt = convFile.saved.systemPrompt
           /\ conversation'.model = convFile.saved.model
           /\ conversation'.conversationHistory = convFile.saved.conversationHistory]_vars

SnapshotRoundTripWitness ==
    /\ last.op = "loadConversation"
    /\ last.input.message.s = "own"
    /\ last.ret = "true"
    /\ Len(conversation.conversationHistory) = 1
    /\ conversation.conversationHistory[1].timestamp < now
    /\ conversation.conversationHistory # last.before

\* C40: when loadConversation returns false, sessionId, systemPrompt, model and
\* history are what they were before the call
FailedLoadChangesNothing ==
    [][(last'.op = "loadConversation" /\ last'.ret = "false")
        => conversation' = conversation]_vars

----------------------------------------------------------------------------
(* Properties of concurrent requests on the shared assistant *)

\* a request is awaiting its remote call
inFlight == pending # <<>> \/ streams # <<>>

\* C32: in every interleaving the web server accepts, no request appends to the
\* history while another request on the same context is awaiting its remote
\* call, and the history alternates user, assistant from a user message in
\* every reachable state
RequestsSerialized ==
    [][/\ (/\ last'.op \in {"sendMessage", "streamStart"}
           /\ conversation'.conversationHistory # conversation.conversationHistory)
          => ~inFlight
       /\ alternates(conversation'.conversationHistory, 1)]_vars

\* C33: while a cache entry for a key is present and fresh, no request replaces
\* its value with a different remote response
OneResponsePerKey ==
    [][(last'.op = "reply" /\ last'.reply.success /\ freshEntry(last'.key))
        => /\ mapHas(cache', last'.key)
           /\ mapGet(cache', last'.key).value = mapGet(cache, last'.key).value]_vars

\* C34: no remote call is started and no record is appended to the ledger at a
\* moment when the ledger is already at or over its budget
NoSpendOverBudget ==
    [][overBudget(tokenTracker) =>
          /\ ~(last'.op = "sendMessage" /\ last'.reply.remote)
          /\ Len(tokenTracker'.callHistory) <= Len(tokenTracker.callHistory)]_vars

----------------------------------------------------------------------------
(* generateKey called with optional fields that are absent: undefined, null *)
(* or a property left out of the options object                             *)

AbsentForms == {JUndef, JNull, JOmitted}
OptionalTemperatures == AbsentForms \cup {JNum(7)}
OptionalPrompts == AbsentForms \cup {JStr("p")}

NormNext ==
    \E m \in KeyMessages, t \in OptionalTemperatures, p \in OptionalPrompts :
        GenerateKey(m, [model |-> JStr(DEFAULT_MODEL), maxTokens |-> JUndef,
                        temperature |-> t, systemPrompt |-> p])

NormSpec == Init /\ [][NormNext]_vars

\* an absent optional field, however it is represented
normalized(v) == IF v \in AbsentForms THEN JUndef ELSE v

\* two inputs of generateKey that are equal up to the representation of an
\* absent temperature or systemPrompt
logicallyEqual(a, b) ==
    /\ a.message = b.message
    /\ a.options.model = b.options.model
    /\ a.options.maxTokens = b.options.maxTokens
    /\ normalized(a.options.temperature) = normalized(b.options.temperature)
    /\ normalized(a.options.systemPrompt) = normalized(b.options.systemPrompt)

\* C35: two parameter sets that differ only in how an absent temperature or
\* systemPrompt is represented (undefined, null, omitted) yield the same key
KeyNormalization ==
    [][(/\ last'.op = "generateKey"
        /\ keyProbe.set
        /\ logicallyEqual(keyProbe.input, last'.input))
        => last'.key = keyProbe.key]_vars

----------------------------------------------------------------------------
(* Properties of a store loaded from a snapshot *)

\* C36: a store constructed from a snapshot holds at most maxSize entries, also
\* when the snapshot holds more unexpired entries than that, and the bound keeps
\* holding after every later set
LoadRespectsCapacity == last.op \in {"restart", "set"} => Len(cache) <= maxSize

\* C37: after a restart from a snapshot of the current entries the keys are
\* ordered from least to most recently accessed as they were before the
\* restart, so that the next eviction removes the entry accessed least recently
RecencySurvivesRestart ==
    [][(/\ last'.op = "restart"
        /\ persistenceEnabled'
        /\ file.exists
        /\ keysOf(file.cache) = keysOf(cache))
        => accessOrder' = SelectSeq(accessOrder, LAMBDA k : mapHas(cache', k))]_vars

----------------------------------------------------------------------------
(* Estimate against the gate *)

\* C39: for every ledger and every (inputTokens, outputTokens, model),
\* estimate(...).wouldExceedBudget is the isOverBudget that checkBudget reports
\* after recordCall with the same arguments, the case where the new total equals
\* budgetLimit included
EstimateAgreesWithGate ==
    [][last'.op = "estimate" =>
          last'.status.wouldExceedBudget =
              checkBudget(recordCall(tokenTracker,
                                     last'.status.estimatedInputTokens,
                                     last'.status.estimatedOutputTokens,
                                     last'.request.model.s)).isOverBudget]_vars

----------------------------------------------------------------------------
(* The pipeline's hits against the store's *)

\* C38: a sendMessage that performed a cache lookup answers fromCache exactly when
\* the store counted that lookup as a hit; a counted hit is never followed by a
\* remote call, with disableCache set or with a cached empty string
HitsAgree ==
    [][(last'.op = "sendMessage" /\ last'.reply.error # "budget")
          => (last'.reply.fromCache <=> stats'.hits = stats.hits + 1)]_vars

====
